---- MODULE Spec2Model ----
(***************************************************************************)
(* A model of the summarisation-and-rendering core of goliz:               *)
(*   - AnalyzeCandlestickData (analysis.go): the indicator engine;         *)
(*   - GenerateCandlestickChart / GenerateChartWithLevels (chart.go): the   *)
(*     chart rasterizer, with its price-to-pixel mapping and windowing;    *)
(*   - GenerateMultiTimeframeCharts, formatPrice and drawLineBresenham      *)
(*     (chart.go), each with a state machine of its own.                   *)
(*                                                                         *)
(* Prices and volumes are float64 in the source.  Here a price is an       *)
(* integer number of ticks and every derived float64 is an exact rational  *)
(* <<numerator, denominator>> in lowest terms with a positive denominator, *)
(* so the arithmetic of the source is followed operation by operation      *)
(* without float rounding.  Go slices are 0-indexed; At(c, i) reads        *)
(* candles[i].                                                             *)
(***************************************************************************)
EXTENDS Integers, Sequences, FiniteSets, TLC

VARIABLES candles, summary, analyzed, call, chart, canvas, charts, prim

vars == <<candles, summary, analyzed, call, chart, canvas, charts, prim>>

(***************************************************************************)
(* Bounds of the model.                                                    *)
(***************************************************************************)
MaxBars == 51

MaxChartBars == 5

MaxSlope == 1

MaxWick == 1

MaxFetchedBars == 2

LineBits == 4

(***************************************************************************)
(* float64 arithmetic, as exact rationals.                                 *)
(***************************************************************************)
RECURSIVE GCD(_, _)
GCD(a, b) == IF b = 0 THEN a ELSE GCD(b, a % b)

Abs(x) == IF x < 0 THEN -x ELSE x

Norm(n, d) ==
    LET s == IF d < 0 THEN -1 ELSE 1
        g == GCD(Abs(n), Abs(d))
    IN  <<(s * n) \div g, (s * d) \div g>>

R(n) == <<n, 1>>

RAdd(a, b) ==
    LET g == GCD(a[2], b[2])
    IN  Norm(a[1] * (b[2] \div g) + b[1] * (a[2] \div g), (a[2] \div g) * b[2])

RSub(a, b) == RAdd(a, <<-b[1], b[2]>>)

RMul(a, b) ==
    LET g1 == GCD(Abs(a[1]), b[2])
        g2 == GCD(Abs(b[1]), a[2])
    IN  IF a[1] = 0 \/ b[1] = 0 THEN <<0, 1>>
        ELSE <<(a[1] \div g1) * (b[1] \div g2), (a[2] \div g2) * (b[2] \div g1)>>

\* a / b for b # 0 (every float division of the model is by a non-zero value
\* or is guarded where it is used).
RDiv(a, b) == RMul(a, IF b[1] < 0 THEN <<-b[2], -b[1]>> ELSE <<b[2], b[1]>>)

RLt(a, b) ==
    LET g == GCD(a[2], b[2])
    IN  a[1] * (b[2] \div g) < b[1] * (a[2] \div g)

RGt(a, b) == RLt(b, a)

RLe(a, b) == ~RLt(b, a)

(***************************************************************************)
(* The bar sequences handed to the core by the data-retrieval              *)
(* collaborator: Candlestick values, here without the two timestamps.      *)
(* The inputs explored are the sequences of 0..MaxBars bars whose close    *)
(* follows a linear drift plus a periodic shape, each bar opening at the   *)
(* previous close, with a wick of fixed size on both sides.                *)
(***************************************************************************)
Shapes ==
    { <<0>>, <<0, 1>>, <<0, 2, 1>>, <<2, 0, 0>>, <<0, 3, 1, 1>>,
      <<1, 0, 4>>, <<0, 0, 1, 0, 0>>, <<3, 0>> }

Base == 100 + MaxSlope * MaxBars

At(c, i) == c[i + 1]

CloseAt(p, k) == Base + p.slope * k + p.shape[(k % Len(p.shape)) + 1]

Candlestick(p, k) ==
    LET cl == CloseAt(p, k)
        op == IF k = 0 THEN Base ELSE CloseAt(p, k - 1)
        hi == (IF op > cl THEN op ELSE cl) + p.wick
        lo == (IF op < cl THEN op ELSE cl) - p.wick
    IN  [Open |-> op, High |-> hi, Low |-> lo, Close |-> cl,
         Volume |-> 1 + p.shape[(k % Len(p.shape)) + 1]]

Bars(p) == [i \in 1..p.n |-> Candlestick(p, i - 1)]

BarParams(lens) ==
    [n : lens, slope : (-MaxSlope)..MaxSlope, shape : Shapes, wick : 0..MaxWick]

\* Sequences of strictly rising closes: bar k closes a step of a periodic
\* pattern above bar k - 1 and opens at the previous close.
RisingSteps == {<<1>>, <<1, 2>>, <<3, 1, 1>>, <<1, 1, 5>>}

\* The sum of the first m steps of the pattern.
RECURSIVE StepSum(_, _)
StepSum(steps, m) == IF m = 0 THEN 0 ELSE StepSum(steps, m - 1) + steps[m]

\* The close of bar k (Base before the first bar): k + 1 steps above Base.
RisingCloseAt(steps, k) ==
    Base + ((k + 1) \div Len(steps)) * StepSum(steps, Len(steps))
         + StepSum(steps, (k + 1) % Len(steps))

RisingBars(n, steps) ==
    [i \in 1..n |->
        [Open |-> RisingCloseAt(steps, i - 2),
         High |-> RisingCloseAt(steps, i - 1) + 1,
         Low |-> RisingCloseAt(steps, i - 2) - 1,
         Close |-> RisingCloseAt(steps, i - 1),
         Volume |-> 1 + steps[((i - 1) % Len(steps)) + 1]]]

RisingInputs == {RisingBars(n, steps) : n \in {49, 50, 60}, steps \in RisingSteps}

\* Sequences of one repeated bar, of a chosen body and upper wick, at a round
\* price: they put the percentages and ratios the analysis compares on and
\* around its thresholds.
ProbeParams ==
    [n : {1, 13, 14, 15}, price : {100, 200}, body : {-1, 0, 1}, up : {0, 2, 3, 9}]

ProbeBars(p) ==
    [i \in 1..p.n |->
        [Open |-> p.price,
         High |-> (IF p.body > 0 THEN p.price + p.body ELSE p.price) + p.up,
         Low |-> IF p.body < 0 THEN p.price + p.body ELSE p.price,
         Close |-> p.price + p.body,
         Volume |-> 1]]

ProbeInputs == {ProbeBars(p) : p \in ProbeParams}

(***************************************************************************)
(* AnalyzeCandlestickData (analysis.go).                                   *)
(***************************************************************************)
\* CandleDataSummary{}: the zero value returned for an empty input.
ZeroSummary ==
    [CandleCount |-> 0, Open |-> R(0), High |-> R(0), Low |-> R(0),
     Close |-> R(0), TotalVolume |-> R(0), AvgVolume |-> R(0),
     PriceChange |-> R(0), Trend |-> "", MA20 |-> R(0), MA50 |-> R(0),
     RSI |-> R(0), Volatility |-> "", LastCandles |-> <<>>]

\* A mutant of HighLowVolume: the comparisons of the loop are exchanged.
RECURSIVE HighLowVolumeExchanged(_, _, _)
HighLowVolumeExchanged(c, lo, hi) ==
    IF hi - lo <= 1
    THEN [High |-> At(c, lo).High, Low |-> At(c, lo).Low,
          TotalVolume |-> At(c, lo).Volume]
    ELSE LET mid == lo + ((hi - lo) \div 2)
             l == HighLowVolumeExchanged(c, lo, mid)
             r == HighLowVolumeExchanged(c, mid, hi)
         IN  [High |-> IF r.High < l.High THEN r.High ELSE l.High,
              Low |-> IF r.Low > l.Low THEN r.Low ELSE l.Low,
              TotalVolume |-> l.TotalVolume + r.TotalVolume]

\* The loop over the candles lo .. hi-1 (lo < hi): highest high, lowest low,
\* total volume.  The loop runs from candles[0] on; its result is computed
\* here by halves, the later half replacing a High it exceeds and a Low it
\* goes below, as a later bar does in the loop.
RECURSIVE HighLowVolume(_, _, _)
HighLowVolume(c, lo, hi) ==
    IF hi - lo <= 1
    THEN [High |-> At(c, lo).High, Low |-> At(c, lo).Low,
          TotalVolume |-> At(c, lo).Volume]
    ELSE LET mid == lo + ((hi - lo) \div 2)
             l == HighLowVolume(c, lo, mid)
             r == HighLowVolume(c, mid, hi)
         IN  [High |-> IF r.High > l.High THEN r.High ELSE l.High,
              Low |-> IF r.Low < l.Low THEN r.Low ELSE l.Low,
              TotalVolume |-> l.TotalVolume + r.TotalVolume]

\* ((Close - Open) / Open) * 100 when Open > 0, else left 0.
PriceChangeOf(open, close) ==
    IF open > 0
    THEN RMul(RDiv(RSub(R(close), R(open)), R(open)), R(100))
    ELSE R(0)

\* sum += candles[i].Close for i = lo .. hi-1
RECURSIVE SumClose(_, _, _)
SumClose(c, lo, hi) ==
    IF lo >= hi THEN 0 ELSE At(c, lo).Close + SumClose(c, lo + 1, hi)

\* A mutant of CalcMA: with fewer bars than the period, the mean of the
\* bars there are.
CalcMAPartial(c, period) ==
    IF Len(c) >= period
    THEN RDiv(R(SumClose(c, Len(c) - period, Len(c))), R(period))
    ELSE RDiv(R(SumClose(c, 0, Len(c))), R(Len(c)))

\* A mutant of CalcMA: the window starts one bar late.
CalcMAShortWindow(c, period) ==
    IF Len(c) >= period
    THEN RDiv(R(SumClose(c, Len(c) - period + 1, Len(c))), R(period))
    ELSE R(0)

\* The trailing mean of close over the last `period` bars; 0 when there are
\* fewer bars than the period.
CalcMA(c, period) ==
    IF Len(c) >= period
    THEN RDiv(R(SumClose(c, Len(c) - period, Len(c))), R(period))
    ELSE R(0)

\* The RSI loop: for i = len-14 .. len-1, change = Close[i] - Close[i-1];
\* a positive change adds to gains, any other subtracts from losses.
RECURSIVE GainsLossesFrom(_, _, _)
GainsLossesFrom(c, i, acc) ==
    IF i >= Len(c) THEN acc
    ELSE LET change == At(c, i).Close - At(c, i - 1).Close
         IN  GainsLossesFrom(c, i + 1,
                 IF change > 0
                 THEN [gains |-> acc.gains + change, losses |-> acc.losses]
                 ELSE [gains |-> acc.gains, losses |-> acc.losses - change])

GainsLosses(c) == GainsLossesFrom(c, Len(c) - 14, [gains |-> 0, losses |-> 0])

\* A mutant of RSIValue: the "1 +" of the denominator is dropped.
RSIValueNoOne(avgGain, avgLoss) ==
    IF RGt(avgLoss, R(0))
    THEN IF avgGain[1] = 0 THEN R(0)
         ELSE RSub(R(100), RDiv(R(100), RDiv(avgGain, avgLoss)))
    ELSE R(100)

\* rs = avgGain / avgLoss; RSI = 100 - 100 / (1 + rs), or 100 when avgLoss
\* is not positive.
RSIValue(avgGain, avgLoss) ==
    IF RGt(avgLoss, R(0))
    THEN LET rs == RDiv(avgGain, avgLoss)
         IN  RSub(R(100), RDiv(R(100), RAdd(R(1), rs)))
    ELSE R(100)

\* A mutant of CalcRSI: the loop starts one bar late (13 deltas).
CalcRSILateStart(c) ==
    IF Len(c) >= 15
    THEN LET gl == GainsLossesFrom(c, Len(c) - 13, [gains |-> 0, losses |-> 0])
         IN  RSIValue(RDiv(R(gl.gains), R(14)), RDiv(R(gl.losses), R(14)))
    ELSE R(0)

\* A mutant of CalcRSI: the else branch is missing, RSI stays 0.
CalcRSINoCeiling(c) ==
    IF Len(c) >= 15
    THEN LET gl == GainsLosses(c)
         IN  IF gl.losses > 0
             THEN RSIValue(RDiv(R(gl.gains), R(14)), RDiv(R(gl.losses), R(14)))
             ELSE R(0)
    ELSE R(0)

\* RSI (14 period): needs at least 15 bars, else left 0.
CalcRSI(c) ==
    IF Len(c) >= 15
    THEN LET gl == GainsLosses(c)
         IN  RSIValue(RDiv(R(gl.gains), R(14)), RDiv(R(gl.losses), R(14)))
    ELSE R(0)

\* A mutant of TrendOf: the comparisons are not strict.
TrendOfNonStrict(close, ma20, ma50) ==
    IF RLe(ma20, close) /\ RLe(ma50, ma20) THEN "BULLISH"
    ELSE IF RLe(close, ma20) /\ RLe(ma20, ma50) THEN "BEARISH"
    ELSE "SIDEWAYS"

\* A mutant of TrendOf: the two labels are exchanged.
TrendOfSwapped(close, ma20, ma50) ==
    IF RGt(close, ma20) /\ RGt(ma20, ma50) THEN "BEARISH"
    ELSE IF RLt(close, ma20) /\ RLt(ma20, ma50) THEN "BULLISH"
    ELSE "SIDEWAYS"

\* BULLISH for Close > MA20 > MA50, BEARISH for Close < MA20 < MA50, else
\* SIDEWAYS.
TrendOf(close, ma20, ma50) ==
    IF RGt(close, ma20) /\ RGt(ma20, ma50) THEN "BULLISH"
    ELSE IF RLt(close, ma20) /\ RLt(ma20, ma50) THEN "BEARISH"
    ELSE "SIDEWAYS"

\* atrSum += High - Low for i = lo .. hi-1
RECURSIVE SumRange(_, _, _)
SumRange(c, lo, hi) ==
    IF lo >= hi THEN 0
    ELSE (At(c, lo).High - At(c, lo).Low) + SumRange(c, lo + 1, hi)

\* A mutant of CalcVolatility: the thresholds are inclusive.
CalcVolatilityInclusive(c, close) ==
    IF Len(c) >= 14
    THEN LET atrSum == SumRange(c, Len(c) - 14, Len(c))
             atr == RDiv(R(atrSum), R(14))
         IN  IF close = 0
             THEN (IF atrSum > 0 THEN "HIGH" ELSE "LOW")
             ELSE LET atrPercent == RMul(RDiv(atr, R(close)), R(100))
                  IN  IF RLe(R(3), atrPercent) THEN "HIGH"
                      ELSE IF RLe(<<3, 2>>, atrPercent) THEN "MEDIUM"
                      ELSE "LOW"
    ELSE ""

\* Volatility from the mean high-low range of the last 14 bars as a percent
\* of the close; left "" with fewer than 14 bars.  A zero close makes the
\* float quotient +Inf (atr > 0: HIGH) or NaN (atr = 0: every comparison is
\* false, LOW).
CalcVolatility(c, close) ==
    IF Len(c) >= 14
    THEN LET atrSum == SumRange(c, Len(c) - 14, Len(c))
             atr == RDiv(R(atrSum), R(14))
         IN  IF close = 0
             THEN (IF atrSum > 0 THEN "HIGH" ELSE "LOW")
             ELSE LET atrPercent == RMul(RDiv(atr, R(close)), R(100))
                  IN  IF RGt(atrPercent, R(3)) THEN "HIGH"
                      ELSE IF RGt(atrPercent, <<3, 2>>) THEN "MEDIUM"
                      ELSE "LOW"
    ELSE ""

\* A mutant of ChangeOf: the previous bar is looked for inside the window of
\* the last 10 bars only.
ChangeOfWindowed(c, i) ==
    IF i > 0 /\ i # Len(c) - 10
    THEN LET prev == At(c, i - 1).Close
             d == At(c, i).Close - prev
         IN  IF prev = 0
             THEN (IF d > 0 THEN "+Inf" ELSE IF d < 0 THEN "-Inf" ELSE "NaN")
             ELSE RMul(RDiv(R(d), R(prev)), R(100))
    ELSE R(0)

\* Change from the previous close, in percent; 0 for the bar at index 0.
\* A zero previous close gives a non-finite float.
ChangeOf(c, i) ==
    IF i > 0
    THEN LET prev == At(c, i - 1).Close
             d == At(c, i).Close - prev
         IN  IF prev = 0
             THEN (IF d > 0 THEN "+Inf" ELSE IF d < 0 THEN "-Inf" ELSE "NaN")
             ELSE RMul(RDiv(R(d), R(prev)), R(100))
    ELSE R(0)

\* A mutant of TypeOf: the thresholds are inclusive.
TypeOfInclusive(b) ==
    LET bodySize == b.Close - b.Open
        totalRange == b.High - b.Low
    IN  IF totalRange > 0
        THEN LET bodyRatio == RDiv(R(bodySize), R(totalRange))
             IN  IF RLe(<<1, 10>>, bodyRatio) THEN "BULL"
                 ELSE IF RLe(bodyRatio, <<-1, 10>>) THEN "BEAR"
                 ELSE "DOJI"
        ELSE ""

\* BULL / BEAR / DOJI by bodyRatio; left "" when High - Low is not positive.
TypeOf(b) ==
    LET bodySize == b.Close - b.Open
        totalRange == b.High - b.Low
    IN  IF totalRange > 0
        THEN LET bodyRatio == RDiv(R(bodySize), R(totalRange))
             IN  IF RGt(bodyRatio, <<1, 10>>) THEN "BULL"
                 ELSE IF RLt(bodyRatio, <<-1, 10>>) THEN "BEAR"
                 ELSE "DOJI"
        ELSE ""

CandleSimple(c, i) ==
    LET b == At(c, i)
    IN  [O |-> b.Open, H |-> b.High, L |-> b.Low, C |-> b.Close,
         Vol |-> b.Volume, Change |-> ChangeOf(c, i), Type |-> TypeOf(b)]

\* A mutant of LastCandlesOf: the first 10 candles are taken.
LastCandlesOfHead(c) ==
    LET count == IF Len(c) < 10 THEN Len(c) ELSE 10
    IN  [k \in 1..count |-> CandleSimple(c, k - 1)]

\* The last 10 candles (all of them when there are fewer), in input order.
LastCandlesOf(c) ==
    LET startIdx == IF Len(c) - 10 < 0 THEN 0 ELSE Len(c) - 10
    IN  [k \in 1..(Len(c) - startIdx) |-> CandleSimple(c, startIdx + k - 1)]

\* The body of AnalyzeCandlestickData for a non-empty input.
SummaryOf(c) ==
    LET n == Len(c)
        hlv == HighLowVolume(c, 0, n)
        open == At(c, 0).Open
        close == At(c, n - 1).Close
        ma20 == CalcMA(c, 20)
        ma50 == CalcMA(c, 50)
    IN  [CandleCount |-> n,
         Open |-> R(open), High |-> R(hlv.High), Low |-> R(hlv.Low),
         Close |-> R(close),
         TotalVolume |-> R(hlv.TotalVolume),
         AvgVolume |-> RDiv(R(hlv.TotalVolume), R(n)),
         PriceChange |-> PriceChangeOf(open, close),
         Trend |-> TrendOf(R(close), ma20, ma50),
         MA20 |-> ma20, MA50 |-> ma50,
         RSI |-> CalcRSI(c),
         Volatility |-> CalcVolatility(c, close),
         LastCandles |-> LastCandlesOf(c)]

\* A mutant of AnalyzeCandlestickData: the empty-input guard is off by one.
AnalyzeGuardOffByOne(c) == IF Len(c) <= 1 THEN ZeroSummary ELSE SummaryOf(c)

AnalyzeCandlestickData(c) == IF Len(c) = 0 THEN ZeroSummary ELSE SummaryOf(c)

(***************************************************************************)
(* Integer arithmetic and float-to-int conversion of Go.                   *)
(***************************************************************************)
\* a / b on ints: truncated toward zero (b # 0).
IntDiv(a, b) ==
    IF (a >= 0) = (b > 0) THEN Abs(a) \div Abs(b) ELSE -(Abs(a) \div Abs(b))

\* int(f) of a finite float: truncated toward zero.
Trunc(r) == IF r[1] >= 0 THEN r[1] \div r[2] ELSE -((-r[1]) \div r[2])

\* The extreme ints.  Go's int is 64 bits wide on the builds concerned; the
\* model's is 32 bits wide, the widest the checker computes with.
MaxInt == (1073741823 + 1073741824)

MinInt == (-MaxInt) - 1

\* top + v, wrapping around as Go's int addition does.
WrapAdd(top, v) ==
    IF v = MaxInt /\ top > 0 THEN MinInt + (top - 1)
    ELSE IF v = MinInt /\ top < 0 THEN MaxInt + (top + 1)
    ELSE top + v

\* int(f) of a float that is NaN or +-Inf is implementation-dependent in Go:
\* amd64 yields the most negative int for all three, arm64 yields 0 for NaN
\* and saturates the infinities.  sign is that of the numerator (0: NaN).
Archs == {"amd64", "arm64"}

NonFiniteToInt(arch, sign) ==
    IF arch = "amd64" THEN MinInt
    ELSE IF sign = 0 THEN 0
    ELSE IF sign > 0 THEN MaxInt
    ELSE MinInt

(***************************************************************************)
(* The chart rasterizer (chart.go).  The pixel buffer is modelled by what   *)
(* is drawn into it: the grid rows, one record per candle drawn, the        *)
(* moving-average segments and the level lines.                            *)
(***************************************************************************)
DefaultChartConfig ==
    [Width |-> 1200, Height |-> 600, Padding |-> 60, CandleWidth |-> 4,
     CandleGap |-> 2, ShowVolume |-> TRUE, ShowMA |-> TRUE,
     MAperiods |-> <<20, 50>>, DarkMode |-> TRUE]

\* The configuration GenerateChartWithLevels builds for itself.
LevelsChartConfig == [DefaultChartConfig EXCEPT !.Width = 1400, !.Height = 700]

\* A mutant of PixelY: the axis is not inverted (price - minPrice).
PixelYNotInverted(price, maxPrice, priceRange, chartTop, chartHeight, arch) ==
    IF priceRange[1] = 0
    THEN WrapAdd(chartTop, NonFiniteToInt(arch, RSub(price, maxPrice)[1]))
    ELSE chartTop + Trunc(RMul(RDiv(RSub(price, RSub(maxPrice, priceRange)),
                                    priceRange), R(chartHeight)))

\* A mutant of PixelY: the quotient is rounded to the nearest int.
PixelYRounded(price, maxPrice, priceRange, chartTop, chartHeight, arch) ==
    IF priceRange[1] = 0
    THEN WrapAdd(chartTop, NonFiniteToInt(arch, RSub(maxPrice, price)[1]))
    ELSE chartTop + Trunc(RAdd(RMul(RDiv(RSub(maxPrice, price), priceRange),
                                    R(chartHeight)), <<1, 2>>))

\* chartTop + int((maxPrice - price) / priceRange * float64(chartHeight)).
\* A zero priceRange makes the quotient NaN or +-Inf.
PixelY(price, maxPrice, priceRange, chartTop, chartHeight, arch) ==
    IF priceRange[1] = 0
    THEN WrapAdd(chartTop, NonFiniteToInt(arch, RSub(maxPrice, price)[1]))
    ELSE chartTop + Trunc(RMul(RDiv(RSub(maxPrice, price), priceRange),
                               R(chartHeight)))

\* A mutant of PriceVolumeRange: maxVolume stays at candles[0].Volume.
PriceVolumeRangeFirstVolume(c) ==
    LET Least(S) == CHOOSE m \in S : \A x \in S : m <= x
        Greatest(S) == CHOOSE m \in S : \A x \in S : x <= m
    IN  [minPrice |-> Least({c[k].Low : k \in 1..Len(c)}),
         maxPrice |-> Greatest({c[k].High : k \in 1..Len(c)}),
         maxVolume |-> c[1].Volume]

\* The loop over all candles: lowest low, highest high, largest volume,
\* started from candles[0].
PriceVolumeRange(c) ==
    LET Least(S) == CHOOSE m \in S : \A x \in S : m <= x
        Greatest(S) == CHOOSE m \in S : \A x \in S : x <= m
    IN  [minPrice |-> Least({c[k].Low : k \in 1..Len(c)}),
         maxPrice |-> Greatest({c[k].High : k \in 1..Len(c)}),
         maxVolume |-> Greatest({c[k].Volume : k \in 1..Len(c)})]

\* A nil *TradeLevels.
NilLevels == [present |-> FALSE, Entry |-> 0, SL |-> 0, TP1 |-> 0, TP2 |-> 0, TP3 |-> 0]

\* A mutant of ExtendRange: the stop-loss is not looked at.
ExtendRangeNoStop(rng, levels) ==
    IF ~levels.present THEN [minPrice |-> R(rng.minPrice), maxPrice |-> R(rng.maxPrice)]
    ELSE [minPrice |-> R(rng.minPrice),
          maxPrice |->
              IF levels.TP3 > 0 /\ levels.TP3 > rng.maxPrice
              THEN RMul(R(levels.TP3), <<201, 200>>)
              ELSE IF levels.TP2 > 0 /\ levels.TP2 > rng.maxPrice
              THEN RMul(R(levels.TP2), <<201, 200>>)
              ELSE IF levels.TP1 > 0 /\ levels.TP1 > rng.maxPrice
              THEN RMul(R(levels.TP1), <<201, 200>>)
              ELSE R(rng.maxPrice)]

\* "Extend range to include levels": the stop-loss below the minimum, and the
\* first of TP3, TP2, TP1 that lies above the maximum.
ExtendRange(rng, levels) ==
    IF ~levels.present THEN [minPrice |-> R(rng.minPrice), maxPrice |-> R(rng.maxPrice)]
    ELSE [minPrice |->
              IF levels.SL > 0 /\ levels.SL < rng.minPrice
              THEN RMul(R(levels.SL), <<199, 200>>)
              ELSE R(rng.minPrice),
          maxPrice |->
              IF levels.TP3 > 0 /\ levels.TP3 > rng.maxPrice
              THEN RMul(R(levels.TP3), <<201, 200>>)
              ELSE IF levels.TP2 > 0 /\ levels.TP2 > rng.maxPrice
              THEN RMul(R(levels.TP2), <<201, 200>>)
              ELSE IF levels.TP1 > 0 /\ levels.TP1 > rng.maxPrice
              THEN RMul(R(levels.TP1), <<201, 200>>)
              ELSE R(rng.maxPrice)]

\* A mutant of PadBy: the padding is left out.
PadByNothing(minPrice, maxPrice, pad) ==
    [minPrice |-> minPrice, maxPrice |-> maxPrice,
     priceRange |-> RSub(maxPrice, minPrice)]

\* minPrice -= pad; maxPrice += pad; priceRange = maxPrice - minPrice
PadBy(minPrice, maxPrice, pad) ==
    [minPrice |-> RSub(minPrice, pad), maxPrice |-> RAdd(maxPrice, pad),
     priceRange |-> RSub(RAdd(maxPrice, pad), RSub(minPrice, pad))]

\* "Add padding to price range": 5% of the range on each side.
PadRange(ext) ==
    PadBy(ext.minPrice, ext.maxPrice,
          RMul(RSub(ext.maxPrice, ext.minPrice), <<1, 20>>))

\* The chart and volume areas, from the four edges of the price region.
AreaOf(cfg, chartLeft, chartRight, chartTop, chartBottom) ==
    [chartLeft |-> chartLeft, chartRight |-> chartRight,
     chartTop |-> chartTop, chartBottom |-> chartBottom,
     chartWidth |-> chartRight - chartLeft,
     chartHeight |-> chartBottom - chartTop,
     volumeTop |-> chartBottom + 10,
     volumeBottom |-> cfg.Height - cfg.Padding,
     volumeHeight |-> (cfg.Height - cfg.Padding) - (chartBottom + 10)]

\* "Calculate chart area" and "Volume area"; rightMargin is the extra space
\* GenerateChartWithLevels keeps for the level labels.
ChartArea(cfg, rightMargin) ==
    AreaOf(cfg, cfg.Padding, cfg.Width - cfg.Padding - rightMargin, cfg.Padding,
           IF cfg.ShowVolume
           THEN Trunc(RMul(R(cfg.Height - cfg.Padding), <<3, 4>>))
           ELSE cfg.Height - cfg.Padding)

\* drawHorizontalGridLines: the rows of the count + 1 dashed grid lines.
GridRows(y1, y2, count) ==
    LET step == IntDiv(y2 - y1, count)
    IN  [i \in 1..(count + 1) |-> y1 + (i - 1) * step]

\* A mutant of WindowCandles: one bar fewer than maxCandles is kept.
WindowCandlesShort(c, maxCandles) ==
    IF Len(c) > maxCandles
    THEN SubSeq(c, Len(c) - maxCandles + 2, Len(c))
    ELSE c

\* A mutant of WindowCandles: the oldest bars are kept.
WindowCandlesHead(c, maxCandles) ==
    IF Len(c) > maxCandles THEN SubSeq(c, 1, maxCandles) ELSE c

\* if len(candles) > maxCandles { candles = candles[len(candles)-maxCandles:] }
\* (for 0 <= maxCandles; a negative maxCandles makes the slice expression
\* fault).
WindowCandles(c, maxCandles) ==
    IF Len(c) > maxCandles
    THEN SubSeq(c, Len(c) - maxCandles + 1, Len(c))
    ELSE c

\* A mutant of CandleShape: the body is not given a minimum height.
CandleShapeThinBody(b, x, cfg, area, maxVolume, openY, closeY, highY, lowY) ==
    [x |-> x, openY |-> openY, closeY |-> closeY, highY |-> highY, lowY |-> lowY,
     wickX |-> x + IntDiv(cfg.CandleWidth, 2),
     color |-> IF b.Close < b.Open THEN "bearish" ELSE "bullish",
     bodyTop |-> IF closeY < openY THEN closeY ELSE openY,
     bodyBottom |-> IF closeY < openY THEN openY ELSE closeY,
     hasVolume |-> cfg.ShowVolume /\ maxVolume > 0,
     volHeight |->
         IF cfg.ShowVolume /\ maxVolume > 0
         THEN Trunc(RMul(RDiv(R(b.Volume), R(maxVolume)), R(area.volumeHeight)))
         ELSE 0]

\* The body and the volume bar of a candle, from its four pixel rows.
CandleShape(b, x, cfg, area, maxVolume, openY, closeY, highY, lowY) ==
    [x |-> x, openY |-> openY, closeY |-> closeY, highY |-> highY, lowY |-> lowY,
     wickX |-> x + IntDiv(cfg.CandleWidth, 2),
     color |-> IF b.Close < b.Open THEN "bearish" ELSE "bullish",
     bodyTop |-> IF closeY < openY THEN closeY ELSE openY,
     bodyBottom |->
         IF closeY < openY
         THEN (IF openY - closeY < 1 THEN closeY + 1 ELSE openY)
         ELSE (IF closeY - openY < 1 THEN openY + 1 ELSE closeY),
     hasVolume |-> cfg.ShowVolume /\ maxVolume > 0,
     volHeight |->
         IF cfg.ShowVolume /\ maxVolume > 0
         THEN Trunc(RMul(RDiv(R(b.Volume), R(maxVolume)), R(area.volumeHeight)))
         ELSE 0]

\* One pass of the "Draw candles" loop, for the candle at index i of the
\* windowed slice.
DrawCandle(b, i, cfg, area, rng, maxVolume, arch) ==
    CandleShape(b,
        area.chartLeft + i * (cfg.CandleWidth + cfg.CandleGap) + IntDiv(cfg.CandleGap, 2),
        cfg, area, maxVolume,
        PixelY(R(b.Open), rng.maxPrice, rng.priceRange, area.chartTop, area.chartHeight, arch),
        PixelY(R(b.Close), rng.maxPrice, rng.priceRange, area.chartTop, area.chartHeight, arch),
        PixelY(R(b.High), rng.maxPrice, rng.priceRange, area.chartTop, area.chartHeight, arch),
        PixelY(R(b.Low), rng.maxPrice, rng.priceRange, area.chartTop, area.chartHeight, arch))

\* calculateMA: the trailing mean of close at every index of the slice, 0
\* where fewer than `period` bars precede.
CalculateMA(c, period) ==
    [k \in 1..Len(c) |->
        IF k - 1 < period - 1 THEN R(0)
        ELSE RDiv(R(SumClose(c, k - period, k)), R(period))]

\* The points of a moving-average line: a zero value is skipped.
MAPoints(ma, cfg, area, rng, arch) ==
    LET kept == SelectSeq([k \in 1..Len(ma) |-> k - 1], LAMBDA i : ma[i + 1] # R(0))
    IN  [k \in 1..Len(kept) |->
            [x |-> area.chartLeft + kept[k] * (cfg.CandleWidth + cfg.CandleGap)
                     + IntDiv(cfg.CandleWidth + cfg.CandleGap, 2),
             y |-> PixelY(ma[kept[k] + 1], rng.maxPrice, rng.priceRange,
                          area.chartTop, area.chartHeight, arch)]]

\* The segments between consecutive points; a previous point with x = 0 or
\* y = 0 reads as "no previous point" and starts no segment.
JoinPoints(points) ==
    LET joined == SelectSeq([k \in 1..(Len(points) - 1) |-> k],
                            LAMBDA k : points[k].x # 0 /\ points[k].y # 0)
    IN  [j \in 1..Len(joined) |->
            [x0 |-> points[joined[j]].x, y0 |-> points[joined[j]].y,
             x1 |-> points[joined[j] + 1].x, y1 |-> points[joined[j] + 1].y]]

\* drawMALine
DrawMALine(ma, cfg, area, rng, arch) == JoinPoints(MAPoints(ma, cfg, area, rng, arch))

\* "Draw Moving Averages": MA20 and MA50, when enabled and more than 50
\* candles are visible.
DrawMovingAverages(visible, cfg, area, rng, arch) ==
    IF cfg.ShowMA /\ Len(visible) > 50
    THEN << [period |-> 20,
             segments |-> DrawMALine(CalculateMA(visible, 20), cfg, area, rng, arch)],
            [period |-> 50,
             segments |-> DrawMALine(CalculateMA(visible, 50), cfg, area, rng, arch)] >>
    ELSE <<>>

\* One level line, drawn only for a level that is > 0.
LevelLine(name, price, area, rng, arch) ==
    IF price > 0
    THEN << [name |-> name, price |-> price,
             y |-> PixelY(R(price), rng.maxPrice, rng.priceRange,
                          area.chartTop, area.chartHeight, arch)] >>
    ELSE <<>>

\* "Draw Level Lines": in the order Entry, SL, TP1, TP2, TP3.
DrawLevels(levels, area, rng, arch) ==
    IF ~levels.present THEN <<>>
    ELSE LevelLine("ENTRY", levels.Entry, area, rng, arch)
           \o LevelLine("SL", levels.SL, area, rng, arch)
           \o LevelLine("TP1", levels.TP1, area, rng, arch)
           \o LevelLine("TP2", levels.TP2, area, rng, arch)
           \o LevelLine("TP3", levels.TP3, area, rng, arch)

\* png.Encode rejects an image without pixels (a zero width or height).
EncodeFails(cfg) == cfg.Width = 0 \/ cfg.Height = 0

\* The canvas before any candle is drawn: the range, the areas, the grid.
BlankCanvas(rng, area, maxVolume, arch, maxCandles) ==
    [created |-> TRUE, minPrice |-> rng.minPrice, maxPrice |-> rng.maxPrice,
     priceRange |-> rng.priceRange, maxVolume |-> maxVolume,
     area |-> area, arch |-> arch,
     grid |-> GridRows(area.chartTop, area.chartBottom, 5),
     maxCandles |-> maxCandles, visible |-> <<>>, drawn |-> <<>>,
     ma |-> <<>>, levels |-> <<>>, price |-> [shown |-> FALSE]]

\* A run-time fault: the call returns nothing.
Panicked(why, img) ==
    [ret |-> [status |-> "panic", bytes |-> <<>>, err |-> why], canvas |-> img]

\* "Draw candles", "Draw Moving Averages" and "Draw Level Lines" on the
\* windowed slice.
DrawAll(visible, cfg, levels, arch, maxVolume, rng, area, maxCandles) ==
    [BlankCanvas(rng, area, maxVolume, arch, maxCandles) EXCEPT
        !.visible = visible,
        !.drawn = [k \in 1..Len(visible) |->
                      DrawCandle(visible[k], k - 1, cfg, area, rng, maxVolume, arch)],
        !.ma = DrawMovingAverages(visible, cfg, area, rng, arch),
        !.levels = DrawLevels(levels, area, rng, arch)]

\* "Draw current price" from the last visible candle.
CurrentPrice(lastCandle) ==
    [shown |-> TRUE, close |-> lastCandle.Close,
     color |-> IF lastCandle.Close < lastCandle.Open THEN "bearish" ELSE "bullish"]

\* "Encode to PNG": the bytes returned encode the canvas.
EncodeCanvas(cfg, img) ==
    IF EncodeFails(cfg)
    THEN [ret |-> [status |-> "error", bytes |-> <<>>, err |-> "failed to encode PNG"],
          canvas |-> img]
    ELSE [ret |-> [status |-> "ok", bytes |-> <<"PNG">>, err |-> "nil"],
          canvas |-> img]

\* The end of the render: candles[len(candles)-1] faults on an empty slice.
FinishChart(cfg, img) ==
    IF Len(img.visible) = 0
    THEN Panicked("index out of range", img)
    ELSE EncodeCanvas(cfg,
             [img EXCEPT !.price = CurrentPrice(At(img.visible, Len(img.visible) - 1))])

\* "Calculate candle positions": the slice expression faults for a negative
\* maxCandles.
RenderWindow(c, cfg, levels, arch, maxVolume, rng, area, maxCandles) ==
    IF Len(c) > maxCandles /\ maxCandles < 0
    THEN Panicked("slice bounds out of range",
                  BlankCanvas(rng, area, maxVolume, arch, maxCandles))
    ELSE FinishChart(cfg,
             DrawAll(WindowCandles(c, maxCandles), cfg, levels, arch, maxVolume,
                     rng, area, maxCandles))

\* maxCandles := chartWidth / totalCandleWidth faults for a zero divisor.
RenderInRange(c, cfg, levels, arch, maxVolume, rng, area) ==
    IF cfg.CandleWidth + cfg.CandleGap = 0
    THEN Panicked("integer divide by zero", BlankCanvas(rng, area, maxVolume, arch, 0))
    ELSE RenderWindow(c, cfg, levels, arch, maxVolume, rng, area,
                      IntDiv(area.chartWidth, cfg.CandleWidth + cfg.CandleGap))

\* The part of both chart functions after the empty-input check.  It yields
\* what the call returns (ret) and what it drew (canvas).
RenderChart(c, cfg, rightMargin, levels, arch) ==
    RenderInRange(c, cfg, levels, arch, PriceVolumeRange(c).maxVolume,
                  PadRange(ExtendRange(PriceVolumeRange(c), levels)),
                  ChartArea(cfg, rightMargin))

NoCanvas == [created |-> FALSE]

\* A mutant of CallerSlice: the reslice of the render shows in the caller's
\* slice.
CallerSliceResliced(c, img) ==
    IF img.created /\ img.visible # <<>> THEN img.visible ELSE c

\* The caller's slice after a render of c that drew img.  The slice is passed
\* by value: "candles = candles[len(candles)-maxCandles:]" assigns the
\* render's own copy of the slice header, and no statement of the render
\* writes an element, so the caller's slice holds what it held.
CallerSlice(c, img) == c

NoCandleData ==
    [ret |-> [status |-> "error", bytes |-> <<>>, err |-> "no candle data to render"],
     canvas |-> NoCanvas]

\* A mutant of GenerateCandlestickChart: the empty-input check is missing,
\* and an image of the empty chart is returned.
GenerateCandlestickChartNoCheck(c, cfg, arch) ==
    IF Len(c) = 0
    THEN [ret |-> [status |-> "ok", bytes |-> <<"PNG">>, err |-> "nil"],
          canvas |-> NoCanvas]
    ELSE RenderChart(c, cfg, 0, NilLevels, arch)

GenerateCandlestickChart(c, cfg, arch) ==
    IF Len(c) = 0 THEN NoCandleData ELSE RenderChart(c, cfg, 0, NilLevels, arch)

GenerateChartWithLevels(c, levels, arch) ==
    IF Len(c) = 0 THEN NoCandleData
    ELSE RenderChart(c, LevelsChartConfig, 80, levels, arch)

\* The ints of drawLineBresenham.  Go's int wraps around silently; the
\* model's is LineBits wide, LineMin..LineMax, and wraps around in the same
\* way.
LineMax == 2^(LineBits - 1) - 1

LineMin == -(2^(LineBits - 1))

Wrap(v) == ((v - LineMin) % (2^LineBits)) + LineMin

\* abs
abs(x) == IF x < 0 THEN Wrap(-x) ELSE x

\* drawLineBresenham up to its loop: dx, dy, sx, sy and err.  from is the
\* start point; sets counts the pixels set (0, 1, or 2 for "more"), last is
\* the pixel set last and prev the one before.
BresenhamEnter(x0, y0, x1, y1) ==
    [fn |-> "drawLineBresenham", pc |-> "loop",
     x0 |-> x0, y0 |-> y0, x1 |-> x1, y1 |-> y1,
     dx |-> abs(Wrap(x1 - x0)), dy |-> abs(Wrap(y1 - y0)),
     sx |-> IF x0 >= x1 THEN -1 ELSE 1, sy |-> IF y0 >= y1 THEN -1 ELSE 1,
     err |-> Wrap(abs(Wrap(x1 - x0)) - abs(Wrap(y1 - y0))),
     from |-> <<x0, y0>>, sets |-> 0, prev |-> <<x0, y0>>, last |-> <<x0, y0>>]

\* The two conditional updates of one pass, from e2 = err * 2.
BresenhamAdvance(l, e2) ==
    LET movesX == e2 > Wrap(-l.dy)
        err1 == IF movesX THEN Wrap(l.err - l.dy) ELSE l.err
        movesY == e2 < l.dx
    IN  [l EXCEPT !.err = IF movesY THEN Wrap(err1 + l.dx) ELSE err1,
                  !.x0 = IF movesX THEN Wrap(l.x0 + l.sx) ELSE l.x0,
                  !.y0 = IF movesY THEN Wrap(l.y0 + l.sy) ELSE l.y0]

\* The pixel (x0, y0) is set.
BresenhamSet(l) ==
    [l EXCEPT !.sets = IF l.sets = 0 THEN 1 ELSE 2,
              !.prev = IF l.sets = 0 THEN <<l.x0, l.y0>> ELSE l.last,
              !.last = <<l.x0, l.y0>>]

\* One pass of the loop: the pixel is set; the loop is left at the end
\* point, and (x0, y0, err) is advanced otherwise.
BresenhamPass(l) ==
    IF l.x0 = l.x1 /\ l.y0 = l.y1
    THEN [BresenhamSet(l) EXCEPT !.pc = "done"]
    ELSE BresenhamAdvance(BresenhamSet(l), Wrap(l.err * 2))

\* 10^k
RECURSIVE Pow10(_)
Pow10(k) == IF k = 0 THEN 1 ELSE 10 * Pow10(k - 1)

\* The integer nearest to a rational q >= 0, a tie going to the even one.
RoundHalfEven(q) ==
    LET fl == q[1] \div q[2]
        rem == q[1] - fl * q[2]
    IN  IF 2 * rem < q[2] THEN fl
        ELSE IF 2 * rem > q[2] THEN fl + 1
        ELSE IF fl % 2 = 0 THEN fl ELSE fl + 1

\* fmt.Sprintf("%.<decimals>f", price): the sign, then the magnitude rounded
\* to that many decimals, kept as a whole number of units of 10^-decimals.
Sprintf(decimals, price) ==
    [neg |-> price[1] < 0, decimals |-> decimals,
     units |-> RoundHalfEven(RMul(<<Abs(price[1]), price[2]>>, R(Pow10(decimals))))]

\* A mutant of formatPrice: the three bounds are exclusive.
formatPriceExclusive(price) ==
    IF RGt(price, R(1000)) THEN Sprintf(2, price)
    ELSE IF RGt(price, R(1)) THEN Sprintf(4, price)
    ELSE IF RGt(price, <<1, 100>>) THEN Sprintf(6, price)
    ELSE Sprintf(8, price)

\* formatPrice
formatPrice(price) ==
    IF RLe(R(1000), price) THEN Sprintf(2, price)
    ELSE IF RLe(R(1), price) THEN Sprintf(4, price)
    ELSE IF RLe(<<1, 100>>, price) THEN Sprintf(6, price)
    ELSE Sprintf(8, price)

\* GetTimeframesForMode
GetTimeframesForMode(mode) ==
    IF mode = "scalping"
    THEN <<"5m", "15m", "1h", "4h", "1d">>
    ELSE <<"5m", "15m", "1h", "4h", "1d", "1w">>

TradingModes == {"scalping", "swing"}

\* The ChartData appended for one timeframe.
ChartData(tf, img, c) == [Interval |-> tf, ImageData |-> img.ret.bytes, Candles |-> c]

\* A mutant of ChartsAfterRender: ChartData.Candles is the slice the render
\* drew.
RECURSIVE ChartsFrom(_, _, _, _, _, _)
ChartsAfterRenderDrawn(tfs, fetched, arch, i, acc, img) ==
    IF img.ret.status = "panic"
    THEN [status |-> "panic", err |-> img.ret.err, canvas |-> img.canvas, charts |-> <<>>]
    ELSE IF img.ret.status # "ok"
    THEN [status |-> "error", err |-> "failed to generate chart",
          canvas |-> img.canvas, charts |-> <<>>]
    ELSE ChartsFrom(tfs, fetched, arch, i + 1,
                    Append(acc, ChartData(tfs[i], img, img.canvas.visible)), img.canvas)

\* The rest of a pass of the loop, after GenerateCandlestickChart returned
\* img: a failure ends the call, a fault in the render ends it with the
\* fault, and a chart is appended with the bars that were fetched.
ChartsAfterRender(tfs, fetched, arch, i, acc, img) ==
    IF img.ret.status = "panic"
    THEN [status |-> "panic", err |-> img.ret.err, canvas |-> img.canvas, charts |-> <<>>]
    ELSE IF img.ret.status # "ok"
    THEN [status |-> "error", err |-> "failed to generate chart",
          canvas |-> img.canvas, charts |-> <<>>]
    ELSE ChartsFrom(tfs, fetched, arch, i + 1,
                    Append(acc, ChartData(tfs[i], img, fetched[i].candles)), img.canvas)

\* The loop over the timeframes from index i on: fetched[i].ok is false when
\* FetchCandlesticks failed for timeframe i; last is the canvas of the
\* latest render.
ChartsFrom(tfs, fetched, arch, i, acc, last) ==
    IF i > Len(tfs)
    THEN [status |-> "ok", err |-> "nil", canvas |-> last, charts |-> acc]
    ELSE IF ~fetched[i].ok
    THEN [status |-> "error", err |-> "failed to fetch data",
          canvas |-> last, charts |-> <<>>]
    ELSE ChartsAfterRender(tfs, fetched, arch, i, acc,
             GenerateCandlestickChart(fetched[i].candles, DefaultChartConfig, arch))

\* GenerateMultiTimeframeCharts: one default chart per timeframe of the mode,
\* each from the bars fetched for that timeframe.
GenerateMultiTimeframeCharts(fetched, mode, arch) ==
    ChartsFrom(GetTimeframesForMode(mode), fetched, arch, 1, <<>>, NoCanvas)

(***************************************************************************)
(* The state machine.  candles is the caller's bar slice; summary is what  *)
(* AnalyzeCandlestickData returned (analyzed says that it has); chart and  *)
(* canvas are what a render returned and drew; charts is what              *)
(* GenerateMultiTimeframeCharts returned; prim is the state of a call of   *)
(* formatPrice or drawLineBresenham.                                       *)
(***************************************************************************)
NoChart == [status |-> "none", bytes |-> <<>>, err |-> "nil"]

\* No drawing primitive is running.
NoPrim == [fn |-> "none"]

NoCall == [fn |-> "none"]

AnalysisInputs ==
    {Bars(p) : p \in BarParams(0..MaxBars)} \cup RisingInputs \cup ProbeInputs

Init ==
    /\ candles \in AnalysisInputs
    /\ summary = ZeroSummary
    /\ analyzed = FALSE
    /\ call = NoCall
    /\ chart = NoChart
    /\ canvas = NoCanvas
    /\ charts = <<>>
    /\ prim = NoPrim

Analyze ==
    /\ ~analyzed
    /\ summary' = AnalyzeCandlestickData(candles)
    /\ analyzed' = TRUE
    /\ UNCHANGED <<candles, call, chart, canvas, charts, prim>>

Next == Analyze

Spec == Init /\ [][Next]_vars

(***************************************************************************)
(* The rendering state machine: one of the two chart functions is called   *)
(* on the caller's bars, with a configuration (or trade levels) of the      *)
(* caller's choice.                                                        *)
(***************************************************************************)
\* The configurations explored: the default one; a small chart with volume
\* that holds 4 candles; a tiny one without volume, 4 pixel rows high, that
\* holds 6; one narrower than a single candle; one of height 0.
SmallConfig ==
    [Width |-> 40, Height |-> 60, Padding |-> 8, CandleWidth |-> 4,
     CandleGap |-> 2, ShowVolume |-> TRUE, ShowMA |-> TRUE,
     MAperiods |-> <<20, 50>>, DarkMode |-> TRUE]

TinyConfig ==
    [Width |-> 30, Height |-> 16, Padding |-> 6, CandleWidth |-> 2,
     CandleGap |-> 1, ShowVolume |-> FALSE, ShowMA |-> FALSE,
     MAperiods |-> <<>>, DarkMode |-> FALSE]

NarrowConfig == [SmallConfig EXCEPT !.Width = 20]

FlatConfig == [SmallConfig EXCEPT !.Height = 0, !.ShowVolume = FALSE]

\* Two configurations no chart comes out of: one narrower than its own
\* padding, one whose candles take no room.
InvertedConfig == [SmallConfig EXCEPT !.Width = 10]

PitchlessConfig == [SmallConfig EXCEPT !.CandleWidth = 0, !.CandleGap = 0]

\* A wide chart that holds 64 candles and asks for one moving average, of
\* period 10.
WideConfig == [SmallConfig EXCEPT !.Width = 400, !.MAperiods = <<10>>]

\* A chart exactly one candle wide.
SingleConfig == [SmallConfig EXCEPT !.Width = 22]

Configs ==
    {DefaultChartConfig, SmallConfig, TinyConfig, NarrowConfig, FlatConfig,
     InvertedConfig, PitchlessConfig, WideConfig, SingleConfig}

\* The trade levels explored, around the first open: a long and a short
\* set-up, take-profits in either order, levels left out (0), or none (nil).
TakeProfits ==
    { <<0, 0, 0>>, <<Base + 30, Base + 50, Base + 70>>,
      <<Base + 70, Base + 50, Base + 30>>, <<Base - 30, Base - 50, Base - 70>>,
      <<Base + 30, 0, 0>>, <<0, Base + 50, Base + 2>> }

LevelSet ==
    {NilLevels,
     [present |-> TRUE, Entry |-> 0, SL |-> 0, TP1 |-> 0, TP2 |-> 0, TP3 |-> 0]} \cup
    { [present |-> TRUE, Entry |-> Base, SL |-> sl, TP1 |-> tp[1], TP2 |-> tp[2], TP3 |-> tp[3]] :
        sl \in {0, Base - 30, Base + 30}, tp \in TakeProfits }

\* The bar sequences rendered: the short ones, and two long ones that exceed
\* the 50 candles the moving averages need and the 200 the levels chart holds.
LongParams ==
    [n : {51, 201}, slope : {1}, shape : {<<0>>, <<0, 2, 1>>}, wick : {1}]

\* Five bars of which the oldest trades twice the volume of the others, and
\* five with that volume on the newest bar.
SpikeParams ==
    [n : {5}, slope : {1}, shape : {<<3, 1, 1, 1, 1>>, <<1, 1, 1, 1, 3>>}, wick : {1}]

ChartInputs ==
    {Bars(p) : p \in BarParams(0..MaxChartBars)} \cup {Bars(p) : p \in LongParams}
        \cup {Bars(p) : p \in SpikeParams}

InitChart ==
    /\ candles \in ChartInputs
    /\ summary = ZeroSummary
    /\ analyzed = FALSE
    /\ call = NoCall
    /\ chart = NoChart
    /\ canvas = NoCanvas
    /\ charts = <<>>
    /\ prim = NoPrim

CallGenerateCandlestickChart ==
    /\ call = NoCall
    /\ \E cfg \in Configs, arch \in Archs :
          LET r == GenerateCandlestickChart(candles, cfg, arch)
          IN  /\ call' = [fn |-> "GenerateCandlestickChart", config |-> cfg,
                          levels |-> NilLevels]
              /\ chart' = r.ret
              /\ canvas' = r.canvas
              /\ candles' = CallerSlice(candles, r.canvas)
    /\ UNCHANGED <<summary, analyzed, charts, prim>>

CallGenerateChartWithLevels ==
    /\ call = NoCall
    /\ \E levels \in LevelSet, arch \in Archs :
          LET r == GenerateChartWithLevels(candles, levels, arch)
          IN  /\ call' = [fn |-> "GenerateChartWithLevels",
                          config |-> LevelsChartConfig, levels |-> levels]
              /\ chart' = r.ret
              /\ canvas' = r.canvas
              /\ candles' = CallerSlice(candles, r.canvas)
    /\ UNCHANGED <<summary, analyzed, charts, prim>>

NextChart == CallGenerateCandlestickChart \/ CallGenerateChartWithLevels

SpecChart == InitChart /\ [][NextChart]_vars

(***************************************************************************)
(* The multi-timeframe state machine: GenerateMultiTimeframeCharts is      *)
(* called; the data-retrieval collaborator answers every timeframe with    *)
(* the bar sequence candles, or fails at one of them (failAt).  charts is   *)
(* the []ChartData returned, canvas what the last render drew.             *)
(***************************************************************************)
CallGenerateMultiTimeframeCharts ==
    /\ call = NoCall
    /\ \E mode \in TradingModes, arch \in Archs, failAt \in 0..3 :
          LET fetched == [i \in 1..6 |-> [ok |-> i # failAt, candles |-> candles]]
              r == GenerateMultiTimeframeCharts(fetched, mode, arch)
          IN  /\ call' = [fn |-> "GenerateMultiTimeframeCharts",
                          config |-> DefaultChartConfig, levels |-> NilLevels,
                          mode |-> mode, failAt |-> failAt]
              /\ chart' = [status |-> r.status, bytes |-> <<>>, err |-> r.err]
              /\ canvas' = r.canvas
              /\ charts' = r.charts
    /\ UNCHANGED <<candles, summary, analyzed, prim>>

NextMulti == CallGenerateMultiTimeframeCharts

\* The bar sequences fetched: short ones, and a long one that exceeds the
\* 180 candles of the default chart.
MultiInputs ==
    {Bars(p) : p \in BarParams(0..MaxFetchedBars)}
        \cup {Bars(p) : p \in [n : {201}, slope : {1}, shape : {<<0, 2, 1>>}, wick : {1}]}

InitMulti ==
    /\ candles \in MultiInputs
    /\ summary = ZeroSummary
    /\ analyzed = FALSE
    /\ call = NoCall
    /\ chart = NoChart
    /\ canvas = NoCanvas
    /\ charts = <<>>
    /\ prim = NoPrim

SpecMulti == InitMulti /\ [][NextMulti]_vars

(***************************************************************************)
(* The shared-input state machine: the caller analyses and renders the     *)
(* same bar slice, in any order (a Summarize and a Render that run         *)
(* concurrently do their reads of the slice in some order).                *)
(***************************************************************************)
SharedInputs ==
    {Bars(p) : p \in BarParams(0..MaxFetchedBars)} \cup {Bars(p) : p \in SpikeParams}

InitShared ==
    /\ candles \in SharedInputs
    /\ summary = ZeroSummary
    /\ analyzed = FALSE
    /\ call = NoCall
    /\ chart = NoChart
    /\ canvas = NoCanvas
    /\ charts = <<>>
    /\ prim = NoPrim

NextShared == Analyze \/ CallGenerateCandlestickChart \/ CallGenerateChartWithLevels

SpecShared == InitShared /\ [][NextShared]_vars

(***************************************************************************)
(* The price-label state machine: formatPrice is applied to a price.       *)
(***************************************************************************)
\* The prices formatted: on, just below and just above the three bounds,
\* zero, negative ones, and ones with no finite decimal expansion.
PriceNumerators ==
    {-1, 0, 1, 2, 9, 10, 11, 99, 100, 101, 999, 1000, 1001, 99999, 100000,
     100001, 123456}

PriceDenominators == {1, 3, 7, 8, 100, 10000}

LabelPrices == {Norm(n, d) : n \in PriceNumerators, d \in PriceDenominators}

InitFormat ==
    /\ candles = <<>>
    /\ summary = ZeroSummary
    /\ analyzed = FALSE
    /\ call = NoCall
    /\ chart = NoChart
    /\ canvas = NoCanvas
    /\ charts = <<>>
    /\ prim \in {[fn |-> "formatPrice", price |-> q, returned |-> FALSE] : q \in LabelPrices}

CallFormatPrice ==
    /\ prim.fn = "formatPrice"
    /\ ~prim.returned
    /\ prim' = [fn |-> "formatPrice", price |-> prim.price, returned |-> TRUE,
                priceStr |-> formatPrice(prim.price)]
    /\ UNCHANGED <<candles, summary, analyzed, call, chart, canvas, charts>>

NextFormat == CallFormatPrice

SpecFormat == InitFormat /\ [][NextFormat]_vars

(***************************************************************************)
(* The line state machine: drawLineBresenham is called on two end points   *)
(* and runs its loop, one pass at a time.  The loop is sequential code: a   *)
(* pass that can be taken is taken (weak fairness).                        *)
(***************************************************************************)
\* The coordinates explored: around zero and at both ends of the int range.
Coords == {LineMin, LineMin + 1, -2, -1, 0, 1, 2, LineMax - 1, LineMax}

InitLine ==
    /\ candles = <<>>
    /\ summary = ZeroSummary
    /\ analyzed = FALSE
    /\ call = NoCall
    /\ chart = NoChart
    /\ canvas = NoCanvas
    /\ charts = <<>>
    /\ prim \in {[fn |-> "drawLineBresenham", pc |-> "entry",
                   x0 |-> a, y0 |-> b, x1 |-> c, y1 |-> d] :
                      a \in Coords, b \in Coords, c \in Coords, d \in Coords}

CallDrawLineBresenham ==
    /\ prim.fn = "drawLineBresenham"
    /\ prim.pc = "entry"
    /\ prim' = BresenhamEnter(prim.x0, prim.y0, prim.x1, prim.y1)
    /\ UNCHANGED <<candles, summary, analyzed, call, chart, canvas, charts>>

LoopDrawLineBresenham ==
    /\ prim.fn = "drawLineBresenham"
    /\ prim.pc = "loop"
    /\ prim' = BresenhamPass(prim)
    /\ UNCHANGED <<candles, summary, analyzed, call, chart, canvas, charts>>

NextLine == CallDrawLineBresenham \/ LoopDrawLineBresenham

SpecLine == InitLine /\ [][NextLine]_vars /\ WF_vars(NextLine)

(***************************************************************************)
(* Properties of AnalyzeCandlestickData, checked under Spec.               *)
(***************************************************************************)
\* The sum of f over a finite set of indices.
RECURSIVE SumOver(_, _)
SumOver(f, S) ==
    IF S = {} THEN 0
    ELSE LET x == CHOOSE y \in S : TRUE IN f[x] + SumOver(f, S \ {x})

\* The closes of the input and its last 14 close-to-close deltas (defined
\* for 15 bars or more), read directly off the caller's sequence.
Closes == [j \in 1..Len(candles) |-> candles[j].Close]

LastDeltas ==
    [k \in 1..14 |->
        candles[Len(candles) - 14 + k].Close - candles[Len(candles) - 15 + k].Close]

DeltaGains == SumOver([k \in 1..14 |-> IF LastDeltas[k] > 0 THEN LastDeltas[k] ELSE 0], 1..14)

DeltaLosses == SumOver([k \in 1..14 |-> IF LastDeltas[k] > 0 THEN 0 ELSE -LastDeltas[k]], 1..14)

\* All close-to-close deltas of the whole input are positive.
AllDeltasPositive ==
    \A j \in 2..Len(candles) : candles[j].Close > candles[j - 1].Close

\* The arithmetic mean of close over the last k bars of the input.
MeanOfLast(k) ==
    Norm(SumOver(Closes, (Len(candles) - k + 1)..Len(candles)), k)

\* C1: on an empty bar sequence AnalyzeCandlestickData returns the zero-value
\* summary with CandleCount = 0; on every non-empty sequence CandleCount is
\* the number of bars given.
C1_CandleCount ==
    analyzed =>
        /\ summary.CandleCount = Len(candles)
        /\ Len(candles) = 0 => summary = ZeroSummary

C1_Witness == analyzed /\ Len(candles) = 0 /\ summary.CandleCount = 0

\* C6: the RSI returned by AnalyzeCandlestickData is in [0, 100] for every bar
\* sequence of any length.
C6_RSIRange ==
    analyzed => RLe(R(0), summary.RSI) /\ RLe(summary.RSI, R(100))

C6_Witness ==
    /\ analyzed
    /\ Len(candles) >= 15
    /\ RLt(R(0), summary.RSI)
    /\ RLt(summary.RSI, R(100))

\* C7: with at least 15 bars the RSI is 100 - 100/(1 + avgGain/avgLoss) over
\* the last 14 close-to-close deltas (gains the sum of the positive deltas,
\* losses the sum of the absolute non-positive ones) when avgLoss > 0 and
\* exactly 100 when avgLoss = 0; with fewer than 15 bars it is 0.
C7_RSIFormula ==
    analyzed =>
        IF Len(candles) < 15 THEN summary.RSI = R(0)
        ELSE IF DeltaLosses = 0 THEN summary.RSI = R(100)
        ELSE summary.RSI =
               RSub(R(100),
                    RDiv(R(100),
                         RAdd(R(1), RDiv(Norm(DeltaGains, 14), Norm(DeltaLosses, 14)))))

C7_Witness ==
    /\ analyzed
    /\ Len(candles) >= 15
    /\ DeltaGains > 0
    /\ DeltaLosses > 0
    /\ summary.RSI # R(50)

\* C8 as stated: exactly 14 bars with all close-to-close deltas positive give
\* RSI = 100.
C8_Original ==
    (analyzed /\ Len(candles) = 14 /\ AllDeltasPositive) => summary.RSI = R(100)

\* C8 as amended: exactly 15 bars (14 deltas) with all deltas positive give
\* losses = 0 (so avgLoss = 0) and RSI = 100 exactly; exactly 14 bars give
\* the absent sentinel 0.
C8_FifteenBars ==
    /\ (analyzed /\ Len(candles) = 15 /\ AllDeltasPositive) =>
            GainsLosses(candles).losses = 0 /\ summary.RSI = R(100)
    /\ (analyzed /\ Len(candles) = 14) => summary.RSI = R(0)

C8_Witness ==
    analyzed /\ Len(candles) = 15 /\ AllDeltasPositive /\ summary.RSI = R(100)

\* C9: MA20 (MA50) is the arithmetic mean of close over exactly the last 20
\* (50) bars when there are at least that many, and is left 0 otherwise.
C9_MovingAverages ==
    analyzed =>
        /\ summary.MA20 = (IF Len(candles) >= 20 THEN MeanOfLast(20) ELSE R(0))
        /\ summary.MA50 = (IF Len(candles) >= 50 THEN MeanOfLast(50) ELSE R(0))

C9_Witness ==
    /\ analyzed
    /\ Len(candles) > 50
    /\ summary.MA20 # summary.MA50
    /\ summary.MA50 # R(0)

C11_RisingIsBullish ==
    (analyzed /\ Len(candles) >= 50 /\ AllDeltasPositive) =>
        /\ RGt(summary.Close, summary.MA20)
        /\ RGt(summary.MA20, summary.MA50)
        /\ summary.Trend = "BULLISH"

\* 60 bars rising by steps that are not all alike.
C11_Witness ==
    /\ analyzed
    /\ Len(candles) = 60
    /\ AllDeltasPositive
    /\ candles[3].Close - candles[2].Close # candles[2].Close - candles[1].Close
    /\ summary.Trend = "BULLISH"

\* The number of typed candles, and the input bar the k-th of them is of.
LastCount == IF Len(candles) < 10 THEN Len(candles) ELSE 10

LastBar(k) == candles[Len(candles) - LastCount + k]

\* The sum of high - low over the last 14 bars of the input (14 bars or more).
LastRanges ==
    SumOver([k \in 1..14 |-> candles[Len(candles) - 14 + k].High
                               - candles[Len(candles) - 14 + k].Low], 1..14)

\* C12: with 14 bars or more and a positive close, the mean of high - low
\* over the last 14 bars as a percent of the close gives HIGH when it is
\* above 3, else MEDIUM when it is above 1.5, else LOW (mean / close * 100 > 3
\* is 100 * sum > 42 * close); with fewer than 14 bars volatility is "".
C12_Volatility ==
    (analyzed /\ Len(candles) > 0 /\ candles[Len(candles)].Close > 0) =>
        IF Len(candles) < 14 THEN summary.Volatility = ""
        ELSE summary.Volatility =
                (IF 100 * LastRanges > 42 * candles[Len(candles)].Close THEN "HIGH"
                 ELSE IF 200 * LastRanges > 42 * candles[Len(candles)].Close THEN "MEDIUM"
                 ELSE "LOW")

\* A mean range of exactly 3% of the close: not above 3, MEDIUM.
C12_Witness ==
    /\ analyzed
    /\ Len(candles) >= 14
    /\ 100 * LastRanges = 42 * candles[Len(candles)].Close
    /\ summary.Volatility = "MEDIUM"

\* C13: LastCandles has min(10, CandleCount) entries, the k-th carrying the
\* open, high, low, close and volume of the k-th of the last
\* min(10, CandleCount) input bars.
C13_LastCandles ==
    analyzed =>
        /\ Len(summary.LastCandles) = LastCount
        /\ \A k \in 1..LastCount :
              /\ summary.LastCandles[k].O = LastBar(k).Open
              /\ summary.LastCandles[k].H = LastBar(k).High
              /\ summary.LastCandles[k].L = LastBar(k).Low
              /\ summary.LastCandles[k].C = LastBar(k).Close
              /\ summary.LastCandles[k].Vol = LastBar(k).Volume

\* More than 10 bars, the first unlike the first of the last 10.
C13_Witness ==
    /\ analyzed
    /\ Len(candles) > 10
    /\ Len(summary.LastCandles) = 10
    /\ candles[1] # candles[Len(candles) - 9]
    /\ summary.LastCandles[1].C = candles[Len(candles) - 9].Close

\* C14: a typed candle is BULL when (close - open) / (high - low) > 0.1,
\* BEAR when it is < -0.1 and DOJI otherwise (so for close = open with
\* high > low); a bar with high = low is left untyped.
C14_CandleType ==
    analyzed =>
        \A k \in 1..Len(summary.LastCandles) :
            LET b == LastBar(k)
                body == b.Close - b.Open
                range == b.High - b.Low
            IN  /\ range > 0 =>
                      summary.LastCandles[k].Type =
                          (IF 10 * body > range THEN "BULL"
                           ELSE IF 10 * body < -range THEN "BEAR"
                           ELSE "DOJI")
                /\ range = 0 => summary.LastCandles[k].Type = ""
                /\ (body = 0 /\ range > 0) => summary.LastCandles[k].Type = "DOJI"

\* A body of exactly a tenth of the range: DOJI.
C14_Witness ==
    /\ analyzed
    /\ \E k \in 1..Len(summary.LastCandles) :
          /\ 10 * (LastBar(k).Close - LastBar(k).Open) = LastBar(k).High - LastBar(k).Low
          /\ LastBar(k).High > LastBar(k).Low
          /\ summary.LastCandles[k].Type = "DOJI"

\* C15: the change of a typed candle is taken from the close of the bar
\* before it in the whole input, also for the first of the last 10; it is
\* the sentinel 0 only for the bar at index 0 of the input.
C15_ChangeFromFullSequence ==
    analyzed =>
        \A k \in 1..Len(summary.LastCandles) :
            LET j == Len(candles) - LastCount + k
            IN  summary.LastCandles[k].Change =
                    (IF j > 1
                     THEN Norm(100 * (candles[j].Close - candles[j - 1].Close),
                               candles[j - 1].Close)
                     ELSE R(0))

\* The first of the last 10 of a longer input, with a change that is not 0.
C15_Witness ==
    /\ analyzed
    /\ Len(candles) > 10
    /\ candles[Len(candles) - 9].Close # candles[Len(candles) - 10].Close
    /\ summary.LastCandles[1].Change # R(0)

\* C16: for a non-empty input the summary's Open is the open of bar 0, High
\* the highest high of all bars, Low the lowest low of all bars and Close the
\* close of the last bar.
C16_SummaryOHLC ==
    (analyzed /\ Len(candles) > 0) =>
        /\ summary.Open = R(candles[1].Open)
        /\ summary.Close = R(candles[Len(candles)].Close)
        /\ \A j \in 1..Len(candles) :
              /\ candles[j].High <= summary.High[1]
              /\ candles[j].Low >= summary.Low[1]
        /\ \E j \in 1..Len(candles) : summary.High = R(candles[j].High)
        /\ \E j \in 1..Len(candles) : summary.Low = R(candles[j].Low)

\* The highest high is that of neither the first nor the last bar, and the
\* lowest low is not that of the last.
C16_Witness ==
    /\ analyzed
    /\ Len(candles) > 2
    /\ summary.High[1] > candles[1].High
    /\ summary.High[1] > candles[Len(candles)].High
    /\ summary.Low[1] < candles[Len(candles)].Low
    /\ summary.Open # summary.Close

(***************************************************************************)
(* Properties of the two chart functions, checked under SpecChart.         *)
(***************************************************************************)
\* A call of either chart function has been made.
Called == call # NoCall

\* The call returned to its caller (it did not fault).
Returned == Called /\ chart.status \in {"ok", "error"}

\* The prices the render mapped to a pixel row, each with the row it got:
\* the open, close, high and low of every candle drawn, and the level lines.
MappedPoints ==
    UNION { { <<canvas.visible[k].Open, canvas.drawn[k].openY>>,
              <<canvas.visible[k].Close, canvas.drawn[k].closeY>>,
              <<canvas.visible[k].High, canvas.drawn[k].highY>>,
              <<canvas.visible[k].Low, canvas.drawn[k].lowY>> } :
            k \in 1..Len(canvas.drawn) }
      \cup { <<canvas.levels[k].price, canvas.levels[k].y>> :
            k \in 1..Len(canvas.levels) }

\* (maxPrice - price) * chartHeight: the quotient of the mapping times the
\* (positive) priceRange.
ScaledOffset(price) ==
    RMul(RSub(canvas.maxPrice, price), R(canvas.area.chartHeight))

\* k is the quotient (maxPrice - price) / priceRange * chartHeight with its
\* fraction dropped: k <= q < k + 1 for q >= 0, k - 1 < q <= k for q < 0.
IsTruncated(k, price) ==
    LET s == ScaledOffset(price)
        r == canvas.priceRange
    IN  IF s[1] >= 0
        THEN RLe(RMul(R(k), r), s) /\ RLt(s, RMul(R(k + 1), r))
        ELSE RLt(RMul(R(k - 1), r), s) /\ RLe(s, RMul(R(k), r))

\* k is that quotient rounded to the nearest integer, halves away from zero:
\* 2k - 1 <= 2q < 2k + 1 for q >= 0, 2k - 1 < 2q <= 2k + 1 for q < 0.
IsRounded(k, price) ==
    LET s == RMul(R(2), ScaledOffset(price))
        r == canvas.priceRange
    IN  IF s[1] >= 0
        THEN RLe(RMul(R(2 * k - 1), r), s) /\ RLt(s, RMul(R(2 * k + 1), r))
        ELSE RLt(RMul(R(2 * k - 1), r), s) /\ RLe(s, RMul(R(2 * k + 1), r))

\* The render mapped prices over a range and a chart area that are not
\* degenerate.
ProperMapping ==
    /\ Called
    /\ canvas.created
    /\ canvas.priceRange[1] > 0
    /\ canvas.area.chartHeight >= 0

\* C2: a render of an empty bar sequence returns the "no candle data"
\* failure and no bytes, and draws nothing; a call that ends in any failure
\* returns no bytes at all, and only a successful call returns an image.
C2_EmptyRenderFails ==
    Called =>
        /\ Len(candles) = 0 =>
              /\ chart.status = "error"
              /\ chart.err = "no candle data to render"
              /\ chart.bytes = <<>>
              /\ canvas = NoCanvas
        /\ chart.status # "ok" => chart.bytes = <<>>
        /\ chart.status = "ok" => chart.bytes # <<>>

\* The levels chart refuses an empty bar sequence.
C2_Witness ==
    /\ call.fn = "GenerateChartWithLevels"
    /\ Len(candles) = 0
    /\ chart.status = "error"
    /\ chart.bytes = <<>>

\* C3: in every call that returns, the candles drawn number at most
\* chartWidth / (candleWidth + candleGap), and when the input is longer than
\* that the candles drawn are exactly its last maxCandles bars, in order.
C3_Windowing ==
    (Returned /\ canvas.created) =>
        /\ canvas.maxCandles =
              IntDiv(canvas.area.chartWidth,
                     call.config.CandleWidth + call.config.CandleGap)
        /\ Len(canvas.drawn) <= canvas.maxCandles
        /\ Len(canvas.drawn) = Len(canvas.visible)
        /\ Len(candles) > canvas.maxCandles =>
              /\ Len(canvas.visible) = canvas.maxCandles
              /\ \A k \in 1..canvas.maxCandles :
                    canvas.visible[k] = candles[Len(candles) - canvas.maxCandles + k]
        /\ Len(candles) <= canvas.maxCandles => canvas.visible = candles

\* The levels chart holds 200 candles and is given 201 that are not alike.
C3_Witness ==
    /\ Returned
    /\ canvas.created
    /\ call.fn = "GenerateChartWithLevels"
    /\ Len(candles) > canvas.maxCandles
    /\ Len(canvas.drawn) = canvas.maxCandles
    /\ candles[1] # candles[Len(candles)]
    /\ canvas.visible[1] = candles[2]

\* C4 as stated: the mapping is strictly decreasing, pixelY(p) > pixelY(q)
\* for any two mapped prices p < q.
C4_Original ==
    (ProperMapping /\ chart.status = "ok") =>
        \A a \in MappedPoints, b \in MappedPoints : a[1] < b[1] => a[2] > b[2]

\* C4, amended: over a positive price range and a chart area of non-negative
\* height the mapping never increases with price, pixelY(p) >= pixelY(q) for
\* any two mapped prices p < q; prices less than a pixel row apart may share
\* a row.
C4_NonIncreasing ==
    ProperMapping =>
        \A a \in MappedPoints, b \in MappedPoints : a[1] < b[1] => a[2] >= b[2]

\* Two prices share a row while two others are rows apart.
C4_Witness ==
    /\ ProperMapping
    /\ chart.status = "ok"
    /\ \E a \in MappedPoints, b \in MappedPoints : a[1] < b[1] /\ a[2] = b[2]
    /\ \E a \in MappedPoints, b \in MappedPoints : a[1] < b[1] /\ a[2] > b[2]

\* C5 as stated: every row is chartTop + round(quotient).
C5_Original ==
    (ProperMapping /\ chart.status = "ok") =>
        \A a \in MappedPoints : IsRounded(a[2] - canvas.area.chartTop, R(a[1]))

\* C5, amended: over a positive price range every row is
\* chartTop + trunc((maxPrice - price) / (maxPrice - minPrice) * chartHeight),
\* the fraction dropped rather than rounded; the padded minPrice maps to
\* chartBottom and the padded maxPrice to chartTop.
C5_Truncated ==
    (Called /\ canvas.created /\ canvas.priceRange[1] > 0) =>
        /\ canvas.priceRange = RSub(canvas.maxPrice, canvas.minPrice)
        /\ \A a \in MappedPoints : IsTruncated(a[2] - canvas.area.chartTop, R(a[1]))
        /\ IsTruncated(canvas.area.chartBottom - canvas.area.chartTop, canvas.minPrice)
        /\ IsTruncated(0, canvas.maxPrice)

\* A price whose quotient has a fraction of a half or more: truncated, it is
\* a row above the rounded one.
C5_Witness ==
    /\ Called
    /\ canvas.created
    /\ chart.status = "ok"
    /\ canvas.priceRange[1] > 0
    /\ \E a \in MappedPoints :
          /\ IsTruncated(a[2] - canvas.area.chartTop, R(a[1]))
          /\ ~IsRounded(a[2] - canvas.area.chartTop, R(a[1]))

\* A call of GenerateChartWithLevels with trade levels has drawn.
LevelsDrawn ==
    /\ call.fn = "GenerateChartWithLevels"
    /\ canvas.created
    /\ call.levels.present

\* The pixel rows of the level lines drawn under a name.
LevelRows(name) ==
    {canvas.levels[k].y : k \in {j \in 1..Len(canvas.levels) : canvas.levels[j].name = name}}

\* The highest high of all candles given to the call.
CandleMax == CHOOSE m \in {candles[j].High : j \in 1..Len(candles)} :
                 \A j \in 1..Len(candles) : candles[j].High <= m

\* The highest take-profit that is set (0 when none is).
HighestTakeProfit ==
    CHOOSE t \in {call.levels.TP1, call.levels.TP2, call.levels.TP3} :
        \A u \in {call.levels.TP1, call.levels.TP2, call.levels.TP3} : u <= t

\* C17: in GenerateChartWithLevels, a positive stop-loss below every candle
\* low makes the minPrice of the mapping at most stopLoss * 0.995, and the
\* stop-loss line is drawn on a row strictly between chartTop and
\* chartBottom.
C17_StopLossInside ==
    (LevelsDrawn /\ call.levels.SL > 0
       /\ \A j \in 1..Len(candles) : call.levels.SL < candles[j].Low) =>
        /\ RLe(canvas.minPrice, RMul(R(call.levels.SL), <<199, 200>>))
        /\ LevelRows("SL") # {}
        /\ \A y \in LevelRows("SL") :
              canvas.area.chartTop < y /\ y < canvas.area.chartBottom

\* A stop-loss below the lows of 201 candles, in a chart that is returned.
C17_Witness ==
    /\ LevelsDrawn
    /\ chart.status = "ok"
    /\ Len(candles) > 200
    /\ call.levels.SL > 0
    /\ \A j \in 1..Len(candles) : call.levels.SL < candles[j].Low
    /\ \E y \in LevelRows("SL") :
          canvas.area.chartTop < y /\ y < canvas.area.chartBottom

\* C18 as stated: every level line drawn is on a row within
\* [chartTop, chartBottom] (here over a positive price range and with TP3
\* the highest take-profit already).
C18_Original ==
    (LevelsDrawn /\ chart.status = "ok" /\ canvas.priceRange[1] > 0
       /\ HighestTakeProfit = call.levels.TP3) =>
        \A k \in 1..Len(canvas.levels) :
            /\ canvas.area.chartTop <= canvas.levels[k].y
            /\ canvas.levels[k].y <= canvas.area.chartBottom

\* C19 as stated: the highest take-profit that is set, when above the
\* highest candle high, lies within the mapped domain with its 0.5% buffer,
\* whatever the order of TP1, TP2 and TP3.
C19_Original ==
    (LevelsDrawn /\ chart.status = "ok" /\ HighestTakeProfit > CandleMax) =>
        RLe(RMul(R(HighestTakeProfit), <<201, 200>>), canvas.maxPrice)

\* C20 as stated: every candle drawn has
\* chartTop < highY <= bodyTop <= lowY < chartBottom.
C20_Original ==
    (call.fn = "GenerateCandlestickChart" /\ call.config = DefaultChartConfig
       /\ chart.status = "ok") =>
        \A k \in 1..Len(canvas.drawn) :
            /\ canvas.area.chartTop < canvas.drawn[k].highY
            /\ canvas.drawn[k].highY <= canvas.drawn[k].bodyTop
            /\ canvas.drawn[k].bodyTop <= canvas.drawn[k].lowY
            /\ canvas.drawn[k].lowY < canvas.area.chartBottom

\* The largest volume among the bars of a sequence.
GreatestVolume(c) ==
    CHOOSE m \in {c[j].Volume : j \in 1..Len(c)} : \A j \in 1..Len(c) : c[j].Volume <= m

\* A render with the volume strip enabled that drew at least one candle.
VolumeDrawn ==
    /\ Called
    /\ canvas.created
    /\ call.config.ShowVolume
    /\ Len(canvas.drawn) > 0

\* C21 as stated: the volume bar of every visible bar is
\* volumeHeight * volume / (largest volume of the visible slice) high.
C21_Original ==
    VolumeDrawn =>
        \A k \in 1..Len(canvas.drawn) :
            canvas.drawn[k].volHeight =
                (canvas.area.volumeHeight * canvas.visible[k].Volume)
                    \div GreatestVolume(canvas.visible)

\* C21: with volume enabled, the volume bar of every visible bar is
\* int(volume / maxVolume * volumeHeight) high, maxVolume being the largest
\* volume of all the bars given to the call, windowed out or not; a visible
\* bar fills the volume region exactly when it has that volume.
C21_VolumeOfAllBars ==
    VolumeDrawn =>
        \A k \in 1..Len(canvas.drawn) :
            /\ canvas.drawn[k].hasVolume
            /\ canvas.drawn[k].volHeight =
                  (canvas.area.volumeHeight * canvas.visible[k].Volume)
                      \div GreatestVolume(candles)
            /\ (canvas.drawn[k].volHeight = canvas.area.volumeHeight)
                  <=> (canvas.visible[k].Volume = GreatestVolume(candles))

\* A chart whose largest-volume bar was windowed out: no visible volume bar
\* fills the region.
C21_Witness ==
    /\ VolumeDrawn
    /\ chart.status = "ok"
    /\ Len(canvas.visible) < Len(candles)
    /\ GreatestVolume(canvas.visible) < GreatestVolume(candles)
    /\ \A k \in 1..Len(canvas.drawn) :
          /\ canvas.drawn[k].volHeight > 0
          /\ canvas.drawn[k].volHeight < canvas.area.volumeHeight

\* C22 as stated: with showMA set and more than 50 visible bars, one
\* moving-average polyline is drawn for each period of config.maPeriods, in
\* that order; none is drawn otherwise.
C22_Original ==
    (Called /\ canvas.created /\ chart.status = "ok") =>
        IF call.config.ShowMA /\ Len(canvas.visible) > 50
        THEN [k \in 1..Len(canvas.ma) |-> canvas.ma[k].period] = call.config.MAperiods
        ELSE canvas.ma = <<>>

\* GenerateMultiTimeframeCharts returned its charts.
ChartsReturned ==
    /\ call # NoCall
    /\ call.fn = "GenerateMultiTimeframeCharts"
    /\ chart.status = "ok"

C25_BodyColorAndHeight ==
    (Called /\ canvas.created) =>
        \A k \in 1..Len(canvas.drawn) :
            LET d == canvas.drawn[k]
                b == canvas.visible[k]
            IN  /\ (d.color = "bullish") <=> (b.Close >= b.Open)
                /\ (d.color = "bearish") <=> (b.Close < b.Open)
                /\ d.bodyTop \in {d.openY, d.closeY}
                /\ d.bodyTop <= d.openY /\ d.bodyTop <= d.closeY
                /\ d.bodyBottom - d.bodyTop >= 1
                /\ d.openY # d.closeY =>
                      /\ d.bodyBottom \in {d.openY, d.closeY}
                      /\ d.bodyBottom >= d.openY /\ d.bodyBottom >= d.closeY
                /\ d.openY = d.closeY => d.bodyBottom = d.bodyTop + 1

\* A chart with a bullish one-row body of a bar with open = close, and a
\* bearish one-row body of a bar whose open and close share a row.
C25_Witness ==
    /\ Called
    /\ canvas.created
    /\ chart.status = "ok"
    /\ canvas.priceRange[1] > 0
    /\ \E k \in 1..Len(canvas.drawn) :
          /\ canvas.visible[k].Close = canvas.visible[k].Open
          /\ canvas.drawn[k].color = "bullish"
          /\ canvas.drawn[k].bodyBottom = canvas.drawn[k].bodyTop + 1
    /\ \E k \in 1..Len(canvas.drawn) :
          /\ canvas.visible[k].Close < canvas.visible[k].Open
          /\ canvas.drawn[k].openY = canvas.drawn[k].closeY
          /\ canvas.drawn[k].color = "bearish"
          /\ canvas.drawn[k].bodyBottom = canvas.drawn[k].bodyTop + 1

\* formatPrice has returned a label.
Formatted == prim.fn = "formatPrice" /\ prim.returned

\* C26: formatPrice prints 2 decimals for price >= 1000, 4 for
\* 1 <= price < 1000, 6 for 0.01 <= price < 1 and 8 for every other price,
\* zero and negative ones included; 1000, 1 and 0.01 are in the upper
\* bucket.  What is printed is the price rounded to that many decimals.
C26_FormatPrice ==
    Formatted =>
        LET p == prim.price
            s == prim.priceStr
        IN  /\ RLe(R(1000), p) => s.decimals = 2
            /\ (RLe(R(1), p) /\ RLt(p, R(1000))) => s.decimals = 4
            /\ (RLe(<<1, 100>>, p) /\ RLt(p, R(1))) => s.decimals = 6
            /\ RLt(p, <<1, 100>>) => s.decimals = 8
            /\ p[1] <= 0 => s.decimals = 8
            /\ p = R(1000) => s = [neg |-> FALSE, decimals |-> 2, units |-> 100000]
            /\ p = R(1) => s = [neg |-> FALSE, decimals |-> 4, units |-> 10000]
            /\ p = <<1, 100>> => s = [neg |-> FALSE, decimals |-> 6, units |-> 10000]
            /\ s.neg <=> p[1] < 0
            /\ RLe(RSub(R(s.units), RMul(<<Abs(p[1]), p[2]>>, R(Pow10(s.decimals)))),
                   <<1, 2>>)
            /\ RLe(RSub(RMul(<<Abs(p[1]), p[2]>>, R(Pow10(s.decimals))), R(s.units)),
                   <<1, 2>>)

\* The bound 0.01 itself was formatted, with 6 decimals: "0.010000".
C26_Witness ==
    /\ Formatted
    /\ prim.price = <<1, 100>>
    /\ prim.priceStr = [neg |-> FALSE, decimals |-> 6, units |-> 10000]

\* drawLineBresenham is in or past its loop.
LineRunning == prim.fn = "drawLineBresenham" /\ prim.pc # "entry"

\* The two pixels set last are the same or neighbours, diagonal ones
\* included.
NoGap ==
    /\ Abs(prim.last[1] - prim.prev[1]) <= 1
    /\ Abs(prim.last[2] - prim.prev[2]) <= 1

ShortHistory ==
    /\ analyzed
    /\ Len(candles) < 50
    /\ \A j \in 1..Len(candles) : candles[j].Close > 0

\* C29 as stated: with fewer than 50 bars and positive closes the trend is
\* never BEARISH, is BULLISH exactly when there are 20 bars or more and
\* close > ma20, and is SIDEWAYS for every sequence of fewer than 20 bars.
C29_Original ==
    ShortHistory =>
        /\ summary.Trend # "BEARISH"
        /\ (summary.Trend = "BULLISH") <=>
              (Len(candles) >= 20 /\ RGt(R(candles[Len(candles)].Close), MeanOfLast(20)))
        /\ Len(candles) < 20 => summary.Trend = "SIDEWAYS"

\* C29: with at least one and fewer than 50 bars, all of a positive close,
\* the trend is never BEARISH, is BULLISH exactly when there are 20 bars or
\* more and the last close is above the mean of the last 20 closes, and is
\* SIDEWAYS otherwise, so for every such sequence of fewer than 20 bars; the
\* ma50 reported is 0.
C29_ShortHistoryTrend ==
    (ShortHistory /\ Len(candles) > 0) =>
        /\ summary.MA50 = R(0)
        /\ summary.Trend \in {"BULLISH", "SIDEWAYS"}
        /\ (summary.Trend = "BULLISH") <=>
              (Len(candles) >= 20 /\ RGt(R(candles[Len(candles)].Close), MeanOfLast(20)))
        /\ Len(candles) < 20 => summary.Trend = "SIDEWAYS"

\* A sequence of 20 to 49 bars whose last close is below the mean of its
\* last 20 closes: SIDEWAYS, not BEARISH.
C29_Witness ==
    /\ ShortHistory
    /\ Len(candles) >= 20
    /\ RLt(R(candles[Len(candles)].Close), MeanOfLast(20))
    /\ summary.Trend = "SIDEWAYS"

\* C30: a render of a non-empty bar sequence with
\* candleWidth + candleGap > 0 and chartWidth / (candleWidth + candleGap) >= 1
\* leaves a non-empty slice after windowing, reads its last candle for the
\* current-price label, and does not fault.
C30_WindowNotEmpty ==
    (/\ Called
     /\ call.fn \in {"GenerateCandlestickChart", "GenerateChartWithLevels"}
     /\ Len(candles) > 0
     /\ call.config.CandleWidth + call.config.CandleGap > 0
     /\ IntDiv(canvas.area.chartWidth,
               call.config.CandleWidth + call.config.CandleGap) >= 1) =>
        /\ Len(canvas.visible) >= 1
        /\ Len(canvas.visible) <= Len(candles)
        /\ canvas.price.shown
        /\ canvas.price.close = candles[Len(candles)].Close
        /\ chart.status # "panic"

\* Five bars in a chart exactly one candle wide: one bar is left, and it is
\* the one the price label reads.
C30_Witness ==
    /\ Called
    /\ call.fn = "GenerateCandlestickChart"
    /\ Len(candles) > 1
    /\ canvas.created
    /\ canvas.maxCandles = 1
    /\ Len(canvas.visible) = 1
    /\ canvas.price.shown
    /\ chart.status = "ok"

====
